---------------------------- MODULE Spec2Model ----------------------------
(***************************************************************************)
(* A model of hdpipe: the candidate viewer (src/hdpipe/candviewer.py and   *)
(* its earlier revisions src/candviewer.py, src/viewer.py).                *)
(*                                                                         *)
(* Numbers.  snr, dm and the candidate times are floats in the program;   *)
(* the model draws them from the integers, a subset of the floats on      *)
(* which every comparison and every addition below is exact.              *)
(***************************************************************************)
EXTENDS Integers, Sequences, FiniteSets, TLC

VARIABLES
    \* ---- the classifier, remove_bad_cands, applied to an array
    rev,        \* which revision's classifier is applied
    t_data,     \* the array handed to remove_bad_cands
    t_data0,    \* the array as the caller built it (history)
    kept,       \* the array remove_bad_cands returned
    rekept,     \* the result of classifying `kept` once more
    cpc,        \* position: "input", "classified", "reclassified"
    \* ---- the zap mask resolvers, get_zap_file and get_zap_str
    zap_mode,   \* the mode identifier handed in
    maskFiles,  \* the mask files that exist in the zap_masks directory
    zres,       \* how the call ended: [kind, value]
    zpc,        \* position: "call", "file" (get_zap_file ran), "str"
    \* ---- main of candviewer: loading, aggregation, classification
    candfiles,  \* the candidate files, sorted by name (np.sort)
    contents,   \* the rows of each candidate file
    icand,      \* the loop index of enumerate(candfiles)
    data,       \* the aggregated records (<<>> while data is None)
    good,       \* the classified records
    apc,        \* position: "loop", "classify", "done"
    \* ---- main of candviewer: the loop over the good candidates, and
    \* ---- plot_candidate_dspsr
    present,    \* the candidate and filterbank files that exist
    mpc,        \* main: "sanity", "loop", "report", "done", "aborted"
    idx,        \* the 1-based position in `good` of the loop's item
    cand_nr,    \* main's counter
    opc,        \* plot_candidate_dspsr: "idle" (not running), "start",
                \* "header", "dmsmear", "mkdtemp", "dspsr", "poll", "zap",
                \* "psrplot", "cleanup"
    workdir,    \* the call's temporary directory (0: none made)
    count,      \* the polling loop's counter
    nchecks,    \* the call's evaluations of os.path.exists(archive) in the
                \* polling loop's condition (history)
    nsleeps,    \* the call's sleep(1) in the polling loop (history)
    trace,      \* the steps the latest call has run, each once (history)
    workdirs,   \* the temporary directories that exist
    archives,   \* the directories whose archive file exists
    ndirs,      \* how many temporary directories were ever made
    outcome,    \* per candidate attempted: how its call ended (history)
    made,       \* per candidate attempted: its temporary directory, or 0
    ncalls,     \* the current call's invocations of each external tool
    errlog,     \* the candidates whose error main printed
    printed,    \* the number main printed at the end (-1: nothing yet)
    uncaught,   \* the exception that ended main ("" if none)
    ordinals,   \* per call entered: the cand_nr it was passed (history)
    outfiles,   \* per call that built its psrplot command: outfile (history)
    \* ---- plot_candidate_dspsr: the arithmetic of the extraction window
    sample,     \* argument: the candidate's sample number
    filter,     \* argument: the candidate's filter number
    snr,        \* argument: the candidate's signal-to-noise ratio
    length,     \* argument: the extraction length asked for (0: none)
    nbin0,      \* argument nbin as passed (0: none)
    nchan0,     \* argument nchan as passed (0: none)
    samp_time,  \* the sampling time the header command gave
    cand_band_smear,    \* the smearing time the dmsmear command gave
    cand_time,
    cand_filter_time,
    cand_smearing,
    cand_start_time,
    cand_tot_time,
    nbin,       \* the local nbin, as the dspsr command gets it
    nchan,      \* the local nchan, as the psrplot command gets it
    wpc,        \* position: "call", "header", "window", "scrunch"
    \* ---- main of run_heimdall
    h_args,     \* args.files, as given on the command line
    files,      \* np.sort(args.files)
    filsPresent,    \* the filterbank files that exist
    i_ok,       \* main's counter i of the files processed
    h_idx,      \* the 1-based position in `files` of the loop's item
    attempted,  \* the files run_heimdall was called on, in order (history)
    h_results,  \* how each of the calls ended (history)
    h_printed,  \* the number main printed at the end (-1: nothing yet)
    hpc,        \* position: "loop", "done"
    \* ---- integrate_psrfits of scripts/preprocess.py, for one directory
    sf_files,   \* sorted(glob.glob(...)): the files, numbered in order
    ibatch,     \* the loop index of range(nbatch)
    batches,    \* files_to_process of every iteration so far (history)
    p_uncaught, \* the exception that ended the function ("" if none)
    ppc         \* position: "loop", "done", "aborted"

clsVars == <<rev, t_data, t_data0, kept, rekept, cpc>>

zapVars == <<zap_mode, maskFiles, zres, zpc>>

aggVars == <<candfiles, contents, icand, data, apc>>

callVars == <<opc, workdir, count, nchecks, nsleeps, trace, ncalls>>

fsVars == <<present, workdirs, archives, ndirs>>

mainVars == <<mpc, idx, cand_nr, outcome, made, errlog, printed, uncaught>>

histVars == <<ordinals, outfiles>>

batchVars == <<callVars, fsVars, mainVars, histVars>>

winArgs == <<sample, filter, snr, length, nbin0, nchan0>>

winVars == <<winArgs, samp_time, cand_band_smear, cand_time,
             cand_filter_time, cand_smearing, cand_start_time,
             cand_tot_time, nbin, nchan, wpc>>

hdVars == <<h_args, files, filsPresent, i_ok, h_idx, attempted, h_results,
            h_printed, hpc>>

preVars == <<sf_files, ibatch, batches, p_uncaught, ppc>>

vars == <<clsVars, zapVars, aggVars, good, batchVars, winVars, hdVars,
          preVars>>

\* what the steps of one part leave alone
notCls == <<zapVars, aggVars, good, batchVars, winVars, hdVars, preVars>>
notZap == <<clsVars, aggVars, good, batchVars, winVars, hdVars, preVars>>
notAgg == <<clsVars, zapVars, batchVars, winVars, hdVars, preVars>>
notBatch == <<clsVars, zapVars, aggVars, good, winVars, hdVars, preVars>>
notWin == <<clsVars, zapVars, aggVars, good, batchVars, hdVars, preVars>>
notHd == <<clsVars, aggVars, good, batchVars, winVars, preVars>>
notPre == <<clsVars, zapVars, aggVars, good, batchVars, winVars, hdVars>>

----------------------------------------------------------------------------
(* Bounds of the model. *)

\* the longest record array handed to the classifier
MaxRecs == 2

\* the most candidate files given on the command line
MaxFiles == 2

\* the most rows of one candidate file
MaxRows == 2

\* the most good candidates main loops over
MaxCands == 3

----------------------------------------------------------------------------
(* General helpers. *)

\* All sequences over S of length at most n.
SeqUpTo(S, n) == UNION {[1..k -> S] : k \in 0..n}

\* numpy boolean-mask indexing data[mask]: the elements whose mask entry is
\* TRUE, in their order.
RECURSIVE BoolIndex(_, _)
BoolIndex(arr, mask) ==
    IF Len(arr) = 0 THEN <<>>
    ELSE IF Head(mask)
         THEN <<Head(arr)>> \o BoolIndex(Tail(arr), Tail(mask))
         ELSE BoolIndex(Tail(arr), Tail(mask))

----------------------------------------------------------------------------
(* The zap mask resolvers.                                                 *)

\* what a call ended in
Returned(v) == [kind |-> "return", value |-> v]
Raised(e) == [kind |-> "raise", value |-> e]
NoResult == [kind |-> "none", value |-> ""]

\* the exceptions of the resolvers
ErrZapModeUnknown == "RuntimeError: Zap mask mode unknown"
ErrZapFileMissing == "RuntimeError: The zap mask file does not exist"
ErrUnbound == "UnboundLocalError"

\* a local name no branch has assigned
Unbound == "<unbound>"

\* the modes argparse admits in candviewer (choices=...), and names outside
ZapChoices == {"None", "Lovell_20cm", "Lovell_80cm", "MeerKAT_20cm"}
ZapChoicesHeimdall == {"None", "Lovell_20cm", "MeerKAT_20cm"}
ZapModesTried == ZapChoices \cup {"Parkes_20cm", "none"}

AllMaskFiles == {"none.psh", "Lovell_20cm.psh", "Lovell_80cm.psh",
                 "MeerKAT_20cm.psh"}

\* the variables of one part of the program while another part is checked
ClsIdle ==
    /\ rev = "hdpipe"
    /\ t_data = <<>>
    /\ t_data0 = <<>>
    /\ kept = <<>>
    /\ rekept = <<>>
    /\ cpc = "idle"

AggIdle ==
    /\ candfiles = <<>>
    /\ contents = <<>>
    /\ icand = 0
    /\ data = <<>>
    /\ apc = "idle"

BatchIdle ==
    /\ present = {}
    /\ mpc = "idle"
    /\ idx = 0
    /\ cand_nr = 0
    /\ opc = "idle"
    /\ workdir = 0
    /\ count = 0
    /\ nchecks = 0
    /\ nsleeps = 0
    /\ trace = <<>>
    /\ workdirs = {}
    /\ archives = {}
    /\ ndirs = 0
    /\ outcome = <<>>
    /\ made = <<>>
    /\ ncalls = <<>>
    /\ errlog = <<>>
    /\ printed = -1
    /\ uncaught = ""
    /\ ordinals = <<>>
    /\ outfiles = <<>>

ZapIdle ==
    /\ zap_mode = "None"
    /\ maskFiles = AllMaskFiles
    /\ zres = NoResult
    /\ zpc = "idle"

HdIdle ==
    /\ h_args = <<>>
    /\ files = <<>>
    /\ filsPresent = {}
    /\ i_ok = 0
    /\ h_idx = 0
    /\ attempted = <<>>
    /\ h_results = <<>>
    /\ h_printed = -1
    /\ hpc = "idle"

PreIdle ==
    /\ sf_files = <<>>
    /\ ibatch = 0
    /\ batches = <<>>
    /\ p_uncaught = ""
    /\ ppc = "idle"

WinIdle ==
    /\ sample = 0
    /\ filter = 0
    /\ snr = 0
    /\ length = 0
    /\ nbin0 = 0
    /\ nchan0 = 0
    /\ samp_time = 0
    /\ cand_band_smear = 0
    /\ cand_time = 0
    /\ cand_filter_time = 0
    /\ cand_smearing = 0
    /\ cand_start_time = 0
    /\ cand_tot_time = 0
    /\ nbin = 0
    /\ nchan = 0
    /\ wpc = "idle"

\* The branch chain of get_zap_file.  Its else branch builds a RuntimeError
\* and drops it (there is no raise), so zap_file stays unbound.
ZapFileOf(mode) ==
    IF mode = "None" THEN "none.psh"
    ELSE IF mode = "Lovell_20cm" THEN "Lovell_20cm.psh"
    ELSE IF mode = "Lovell_80cm" THEN "Lovell_80cm.psh"
    ELSE IF mode = "MeerKAT_20cm" THEN "MeerKAT_20cm.psh"
    ELSE Unbound

\* get_zap_file: os.path.isfile(zap_file) reads the local, which raises
\* UnboundLocalError when no branch assigned it.
get_zap_file(mode, masks) ==
    LET zap_file == ZapFileOf(mode)
    IN  IF zap_file = Unbound THEN Raised(ErrUnbound)
        ELSE IF zap_file \notin masks THEN Raised(ErrZapFileMissing)
        ELSE Returned(zap_file)

\* The branch chain of get_zap_str (run_heimdall), the same else branch.
ZapStrOf(mode) ==
    IF mode = "None" THEN ""
    ELSE IF mode = "Lovell_20cm"
    THEN "-zap_chans 48 53 -zap_chans 191 193 -zap_chans 211 230 ..."
    ELSE IF mode = "MeerKAT_20cm"
    THEN "-zap_chans 0 27 -zap_chans 82 124 -zap_chans 376 391 ..."
    ELSE Unbound

\* get_zap_str: `return zap_str` reads the local.
get_zap_str(mode) ==
    LET zap_str == ZapStrOf(mode)
    IN  IF zap_str = Unbound THEN Raised(ErrUnbound)
        ELSE Returned(zap_str)

InitZap ==
    /\ ClsIdle
    /\ WinIdle
    /\ HdIdle
    /\ PreIdle
    /\ AggIdle
    /\ BatchIdle
    /\ good = <<>>
    /\ zap_mode \in ZapModesTried
    /\ maskFiles \in SUBSET AllMaskFiles
    /\ zres = NoResult
    /\ zpc = "call"

GetZapFile ==
    /\ zpc = "call"
    /\ zres' = get_zap_file(zap_mode, maskFiles)
    /\ zpc' = "file"
    /\ UNCHANGED <<zap_mode, maskFiles>>
    /\ UNCHANGED notZap

GetZapStr ==
    /\ zpc = "call"
    /\ zres' = get_zap_str(zap_mode)
    /\ zpc' = "str"
    /\ UNCHANGED <<zap_mode, maskFiles>>
    /\ UNCHANGED notZap

NextZap ==
    \/ GetZapFile
    \/ GetZapStr

SpecZap == InitZap /\ [][NextZap]_vars

----------------------------------------------------------------------------
(* C5: a zap mode outside the enumerated names is rejected with the        *)
(* unknown-zap-mode error, which is not the missing-mask-file error, and  *)
(* nothing is returned for it.                                            *)
C5_UnknownModeRejected ==
    /\ (zpc = "file" /\ zap_mode \notin ZapChoices) =>
            zres = Raised(ErrZapModeUnknown)
    /\ (zpc = "str" /\ zap_mode \notin ZapChoicesHeimdall) =>
            zres = Raised(ErrZapModeUnknown)

----------------------------------------------------------------------------
(* The classifier: remove_bad_cands.                                       *)

\* thresholds of src/hdpipe/candviewer.py
snr_min == 7
filter_max == 10
dm_min == 320
dm_max == 350
cluster_min == 5

\* thresholds of the earlier revisions (src/candviewer.py, src/viewer.py),
\* which have no upper dm bound
snr_min_old == 9
filter_max_old == 8
dm_min_old == 100
cluster_min_old == 4

\* A mutant: the mask is read one element late, so that a record is kept
\* when its successor passes (the last record is masked out).
remove_bad_cands_shifted(arr) ==
    LET copy == arr
        mask == [i \in 1..Len(copy) |->
                    /\ i < Len(copy)
                    /\ copy[i + 1].snr > snr_min
                    /\ copy[i + 1].filter <= filter_max
                    /\ copy[i + 1].dm > dm_min
                    /\ copy[i + 1].dm < dm_max
                    /\ copy[i + 1].n_clusters > cluster_min]
    IN  BoolIndex(copy, mask)

\* A mutant: the snr test admits the threshold itself.
remove_bad_cands_ge(arr) ==
    LET copy == arr
        mask == [i \in 1..Len(copy) |->
                    /\ copy[i].snr >= snr_min
                    /\ copy[i].filter <= filter_max
                    /\ copy[i].dm > dm_min
                    /\ copy[i].dm < dm_max
                    /\ copy[i].n_clusters > cluster_min]
    IN  BoolIndex(copy, mask)

\* remove_bad_cands of src/hdpipe/candviewer.py: np.copy of the array, an
\* elementwise mask, and the masked copy.
remove_bad_cands(arr) ==
    LET copy == arr
        mask == [i \in 1..Len(copy) |->
                    /\ copy[i].snr > snr_min
                    /\ copy[i].filter <= filter_max
                    /\ copy[i].dm > dm_min
                    /\ copy[i].dm < dm_max
                    /\ copy[i].n_clusters > cluster_min]
    IN  BoolIndex(copy, mask)

\* remove_bad_cands of src/candviewer.py and src/viewer.py.
remove_bad_cands_old(arr) ==
    LET copy == arr
        mask == [i \in 1..Len(copy) |->
                    /\ copy[i].snr > snr_min_old
                    /\ copy[i].filter <= filter_max_old
                    /\ copy[i].dm > dm_min_old
                    /\ copy[i].n_clusters > cluster_min_old]
    IN  BoolIndex(copy, mask)

Classify(r, arr) ==
    IF r = "hdpipe" THEN remove_bad_cands(arr) ELSE remove_bad_cands_old(arr)

\* The records the classifier is tried on: every field on both sides of its
\* threshold(s).
ClsRecords ==
    [snr : {snr_min, snr_min + 1},
     filter : {filter_max, filter_max + 1},
     dm : {dm_min, dm_min + 1, dm_max - 1, dm_max},
     n_clusters : {cluster_min, cluster_min + 1}]

ClsRecordsOld ==
    [snr : {snr_min_old, snr_min_old + 1},
     filter : {filter_max_old, filter_max_old + 1},
     dm : {dm_min_old, dm_min_old + 1, dm_max},
     n_clusters : {cluster_min_old, cluster_min_old + 1}]

InitClassifier ==
    /\ ZapIdle
    /\ WinIdle
    /\ HdIdle
    /\ PreIdle
    /\ AggIdle
    /\ BatchIdle
    /\ good = <<>>
    /\ rev \in {"hdpipe", "old"}
    /\ t_data \in SeqUpTo(IF rev = "hdpipe" THEN ClsRecords ELSE ClsRecordsOld,
                          MaxRecs)
    /\ t_data0 = t_data
    /\ kept = <<>>
    /\ rekept = <<>>
    /\ cpc = "input"

\* kept = remove_bad_cands(data)
ClassifyStep ==
    /\ cpc = "input"
    /\ kept' = Classify(rev, t_data)
    /\ cpc' = "classified"
    /\ UNCHANGED <<rev, t_data, t_data0, rekept>>
    /\ UNCHANGED notCls

\* the classified array is classified again (plot_candidates and
\* plot_candidate_timeline classify what main hands them; main of
\* src/candviewer.py classifies each part and then the concatenation)
ReclassifyStep ==
    /\ cpc = "classified"
    /\ rekept' = Classify(rev, kept)
    /\ cpc' = "reclassified"
    /\ UNCHANGED <<rev, t_data, t_data0, kept>>
    /\ UNCHANGED notCls

NextClassifier ==
    \/ ClassifyStep
    \/ ReclassifyStep

SpecClassifier == InitClassifier /\ [][NextClassifier]_vars

----------------------------------------------------------------------------
(* C9: the classifier is idempotent: classifying its own output returns   *)
(* exactly the same records in the same order.                            *)
C9_Idempotent ==
    cpc = "reclassified" => rekept = kept

\* C9, reached: an input of which something was kept and something
\* rejected, classified twice
C9_Witness ==
    /\ cpc = "reclassified"
    /\ Len(kept) >= 1
    /\ Len(kept) < Len(t_data)

----------------------------------------------------------------------------
(* C10: a record is retained iff snr > snr_min, filter <= filter_max,      *)
(* dm_min < dm (< dm_max where the revision has an upper bound) and        *)
(* n_clusters > cluster_min; the classifier returns for every input (the  *)
(* empty one included) and leaves its input as it was.                    *)
Retained(r, x) ==
    IF r = "hdpipe"
    THEN x.snr > 7 /\ x.filter <= 10 /\ 320 < x.dm /\ x.dm < 350
         /\ x.n_clusters > 5
    ELSE x.snr > 9 /\ x.filter <= 8 /\ x.dm > 100 /\ x.n_clusters > 4

\* the indices of the retained records of the input
RetainedIdx == {i \in 1..Len(t_data0) : Retained(rev, t_data0[i])}

\* the k-th smallest retained index
NthRetained(k) ==
    CHOOSE i \in RetainedIdx : Cardinality({j \in RetainedIdx : j <= i}) = k

C10_RetainIff ==
    /\ cpc = "input" => ENABLED ClassifyStep
    /\ cpc # "input" =>
        /\ Len(kept) = Cardinality(RetainedIdx)
        /\ \A k \in 1..Len(kept) : kept[k] = t_data0[NthRetained(k)]
        /\ t_data = t_data0

\* C10, reached: of two records the first, with dm = dm_max, was rejected
\* and the second kept
C10_Witness ==
    /\ cpc = "classified"
    /\ rev = "hdpipe"
    /\ Len(t_data) = 2
    /\ Len(kept) = 1
    /\ t_data[1].dm = dm_max
    /\ kept[1] = t_data[2]

----------------------------------------------------------------------------
(* main of src/hdpipe/candviewer.py: loading the candidate files,          *)
(* stitching them into one timeline, classification.                       *)

\* the candidate file names, in the order np.sort gives them
FileNames == <<"a.cand", "b.cand", "c.cand", "d.cand">>

\* "{0}.fil".format(item[0:-5])
FilOf(item) ==
    CASE item = "a.cand" -> "a.fil"
      [] item = "b.cand" -> "b.fil"
      [] item = "c.cand" -> "c.fil"
      [] item = "d.cand" -> "d.fil"

\* the seconds added per file in main ("XXX: do not hardcode time here")
session_gap == 60

\* rows a candidate file may hold: the nine columns of load_data's dtype
Rows ==
    { [snr |-> 9, samp_nr |-> 0, time |-> 0, filter |-> 3, dmtrial |-> 40,
       dm |-> 330, n_clusters |-> 6, start |-> 0, end |-> 8],
      [snr |-> 8, samp_nr |-> 1000, time |-> 100, filter |-> 3,
       dmtrial |-> 40, dm |-> 330, n_clusters |-> 6, start |-> 996,
       end |-> 1004],
      [snr |-> 12, samp_nr |-> 50, time |-> 5, filter |-> 3, dmtrial |-> 44,
       dm |-> 360, n_clusters |-> 6, start |-> 46, end |-> 54] }

\* one record of load_data's array: the row's columns and the three added
\* fields
Record(row, cand_file, fil_file, total_time) ==
    [snr |-> row.snr, samp_nr |-> row.samp_nr, time |-> row.time,
     filter |-> row.filter, dmtrial |-> row.dmtrial, dm |-> row.dm,
     n_clusters |-> row.n_clusters, start |-> row.start, end |-> row.end,
     cand_file |-> cand_file, fil_file |-> fil_file,
     total_time |-> total_time]

\* load_data: genfromtxt and atleast_1d give one record per row; the added
\* fields are zeroed and cand_file is set to the file name.
load_data(filename, rows) ==
    [i \in 1..Len(rows) |-> Record(rows[i], filename, "", 0)]

\* A mutant: the offset counts the files from zero.
PartOfFile_k(k, item, rows) ==
    LET part == load_data(item, rows)
    IN  [i \in 1..Len(part) |->
            [part[i] EXCEPT !.cand_file = item,
                            !.fil_file = FilOf(item),
                            !.total_time = part[i].time + k * session_gap]]

\* the body of main's loop up to the concatenation, for loop index k:
\* part["total_time"] = part["time"] + (icand - 1) * 60.0
PartOfFile(k, item, rows) ==
    LET part == load_data(item, rows)
    IN  [i \in 1..Len(part) |->
            [part[i] EXCEPT !.cand_file = item,
                            !.fil_file = FilOf(item),
                            !.total_time =
                                part[i].time + (k - 1) * session_gap]]

\* the place of a candidate file's name in the order of the names
NameRank(f) == CHOOSE k \in 1..Len(FileNames) : FileNames[k] = f

\* what np.sort compares of a record: the field named by order= first, then
\* the other fields in the order of the dtype (fil_file follows cand_file)
SortKey(r) ==
    <<r.snr, r.samp_nr, r.time, r.filter, r.dmtrial, r.dm, r.n_clusters,
      r.start, r.end, NameRank(r.cand_file), r.total_time>>

\* k1 comes before k2, field by field
RECURSIVE KeyLess(_, _)
KeyLess(k1, k2) ==
    IF Len(k1) = 0 THEN FALSE
    ELSE IF Head(k1) # Head(k2) THEN Head(k1) < Head(k2)
    ELSE KeyLess(Tail(k1), Tail(k2))

\* x put into the sorted array after the elements that are not above it
SortInsert(x, arr) ==
    LET k == Cardinality({i \in 1..Len(arr) :
                            ~KeyLess(SortKey(x), SortKey(arr[i]))})
    IN  SubSeq(arr, 1, k) \o <<x>> \o SubSeq(arr, k + 1, Len(arr))

\* np.sort(arr, order="snr"): ascending
RECURSIVE np_sort(_)
np_sort(arr) ==
    IF Len(arr) = 0 THEN <<>>
    ELSE SortInsert(Head(arr), np_sort(Tail(arr)))

\* np.flipud(arr): the array back to front
np_flipud(arr) == [i \in 1..Len(arr) |-> arr[Len(arr) + 1 - i]]

\* after argument parsing and np.sort: one to MaxFiles files that exist
InitAggregator ==
    /\ ClsIdle
    /\ WinIdle
    /\ HdIdle
    /\ PreIdle
    /\ ZapIdle
    /\ BatchIdle
    /\ \E n \in 1..MaxFiles :
        /\ candfiles = SubSeq(FileNames, 1, n)
        /\ contents \in [1..n -> SeqUpTo(Rows, MaxRows)]
    /\ icand = 0
    /\ data = <<>>
    /\ good = <<>>
    /\ apc = "loop"

\* A mutant: the part is put in front of what was loaded before.
LoadPartInFront ==
    /\ apc = "loop"
    /\ icand < Len(candfiles)
    /\ data' = PartOfFile(icand, candfiles[icand + 1],
                          contents[icand + 1]) \o data
    /\ icand' = icand + 1
    /\ apc' = IF icand + 1 = Len(candfiles) THEN "classify" ELSE "loop"
    /\ UNCHANGED <<candfiles, contents, good>>
    /\ UNCHANGED notAgg

\* one iteration of `for icand, item in enumerate(candfiles)`
LoadPart ==
    /\ apc = "loop"
    /\ icand < Len(candfiles)
    /\ data' = data \o PartOfFile(icand, candfiles[icand + 1],
                                  contents[icand + 1])
    /\ icand' = icand + 1
    /\ apc' = IF icand + 1 = Len(candfiles) THEN "classify" ELSE "loop"
    /\ UNCHANGED <<candfiles, contents, good>>
    /\ UNCHANGED notAgg

\* good = remove_bad_cands(data), np.sort(good, order="snr") and
\* np.flipud(good)
ClassifyAll ==
    /\ apc = "classify"
    /\ good' = np_flipud(np_sort(remove_bad_cands(data)))
    /\ apc' = "done"
    /\ UNCHANGED <<candfiles, contents, icand, data>>
    /\ UNCHANGED notAgg

NextAggregator ==
    \/ LoadPart
    \/ ClassifyAll

SpecAggregator == InitAggregator /\ [][NextAggregator]_vars

\* the 0-indexed position of a record's file in processing order
FileIndex(r) == (CHOOSE k \in 1..Len(candfiles) : candfiles[k] = r.cand_file) - 1

\* the offset the aggregation gave a record
OffsetOf(r) == r.total_time - r.time

----------------------------------------------------------------------------
(* C6: every record of the k-th file (0-indexed) has                       *)
(* global_time = local_time + k * 60; records of the first file keep      *)
(* their time.                                                             *)
C6_OffsetIsKTimesGap ==
    \A i \in 1..Len(data) :
        data[i].total_time = data[i].time + FileIndex(data[i]) * 60

----------------------------------------------------------------------------
(* C7: every aggregated record has global_time >= local_time, and the      *)
(* offset of a later file is at least the offset of an earlier one.       *)
C7_OffsetsNonNegativeMonotone ==
    /\ \A i \in 1..Len(data) : data[i].total_time >= data[i].time
    /\ \A i, j \in 1..Len(data) :
        FileIndex(data[i]) < FileIndex(data[j]) =>
            OffsetOf(data[i]) <= OffsetOf(data[j])

----------------------------------------------------------------------------
(* C8: across every boundary between the records of two files processed   *)
(* one after the other, global_time does not decrease.                     *)
C8_BoundaryNonDecreasing ==
    \A i \in 1..(Len(data) - 1) :
        data[i].cand_file # data[i + 1].cand_file =>
            data[i].total_time <= data[i + 1].total_time

----------------------------------------------------------------------------
\* the number of rows of the first k files
RECURSIVE RowsBefore(_)
RowsBefore(k) == IF k = 0 THEN 0 ELSE RowsBefore(k - 1) + Len(contents[k])

\* the columns of a record that came from the file's row
RowOf(r) ==
    [snr |-> r.snr, samp_nr |-> r.samp_nr, time |-> r.time,
     filter |-> r.filter, dmtrial |-> r.dmtrial, dm |-> r.dm,
     n_clusters |-> r.n_clusters, start |-> r.start, end |-> r.end]

(* C20: the aggregated array is the rows of the files loaded so far, file  *)
(* after file in the order of the files and row after row in the order of *)
(* each file: the i-th row of the k-th file stands at the place the rows  *)
(* of the files before it leave free plus i, and there are no other       *)
(* records.                                                                *)
C20_Concatenation ==
    /\ Len(data) = RowsBefore(icand)
    /\ \A k \in 1..icand : \A i \in 1..Len(contents[k]) :
        /\ data[RowsBefore(k - 1) + i].cand_file = candfiles[k]
        /\ RowOf(data[RowsBefore(k - 1) + i]) = contents[k][i]
    /\ \A p, q \in 1..Len(data) :
        p < q => NameRank(data[p].cand_file) <= NameRank(data[q].cand_file)

\* C20, reached: two files of two different rows each were loaded
C20_Witness ==
    /\ apc = "classify"
    /\ Len(candfiles) = 2
    /\ Len(data) = 4
    /\ contents[1][1] # contents[1][2]
    /\ contents[2][1] # contents[2][2]
    /\ contents[1] # contents[2]
    /\ data[3].cand_file = "b.cand"

----------------------------------------------------------------------------
(* main of src/hdpipe/candviewer.py from the sanity check on, and          *)
(* plot_candidate_dspsr, which it calls once per good candidate.          *)

\* the external tools plot_candidate_dspsr runs
Tools == {"header", "dmsmear", "dspsr", "psrplot"}

\* count = 10
PollCount == 10

\* the exceptions of main and plot_candidate_dspsr
ErrCalledProcess == "CalledProcessError"
ErrFilMissing == "RuntimeError: Filterbank file does not exist"
ErrSanity == "RuntimeError: Cand or fil file do not exist"
ErrValue == "ValueError"
ErrIndex == "IndexError"

\* how a call of plot_candidate_dspsr ended
Done == [state |-> "Done", stage |-> "", exc |-> ""]
Failed(stage, exc) == [state |-> "Failed", stage |-> stage, exc |-> exc]

\* A mutant: main catches every exception of the call.
CatchesAny(exc) == TRUE

\* `except subprocess.CalledProcessError as e` in main's loop
Catches(exc) == exc = ErrCalledProcess

\* the good candidates the loop is tried on: records that pass the
\* classifier, of two candidate files
GoodCands ==
    { Record([snr |-> 9, samp_nr |-> 0, time |-> 0, filter |-> 3,
              dmtrial |-> 40, dm |-> 330, n_clusters |-> 6, start |-> 0,
              end |-> 8], "a.cand", "a.fil", -60),
      Record([snr |-> 8, samp_nr |-> 1000, time |-> 100, filter |-> 3,
              dmtrial |-> 40, dm |-> 330, n_clusters |-> 6, start |-> 996,
              end |-> 1004], "b.cand", "b.fil", 100) }

CandFiles == {"a.cand", "b.cand"}
FilFiles == {"a.fil", "b.fil"}

\* snr does not increase along the array
SortedBySnrDesc(arr) ==
    \A i \in 1..(Len(arr) - 1) : arr[i].snr >= arr[i + 1].snr

\* After `good = np.flipud(good)`: the candidate files were found at the
\* start of main and loaded; the filterbank files were never looked at.
Init ==
    /\ ClsIdle
    /\ WinIdle
    /\ HdIdle
    /\ PreIdle
    /\ AggIdle
    /\ zap_mode \in {"None", "Lovell_80cm"}
    /\ maskFiles = AllMaskFiles \ {"Lovell_80cm.psh"}
    /\ zres = NoResult
    /\ zpc = "idle"
    /\ good \in {np_flipud(np_sort(arr)) : arr \in SeqUpTo(GoodCands, MaxCands)}
    /\ present \in {CandFiles \cup f : f \in SUBSET FilFiles}
    /\ mpc = "sanity"
    /\ idx = 1
    /\ cand_nr = 0
    /\ opc = "idle"
    /\ workdir = 0
    /\ count = 0
    /\ nchecks = 0
    /\ nsleeps = 0
    /\ trace = <<>>
    /\ workdirs = {}
    /\ archives = {}
    /\ ndirs = 0
    /\ outcome = <<>>
    /\ made = <<>>
    /\ ncalls = [t \in Tools |-> 0]
    /\ errlog = <<>>
    /\ printed = -1
    /\ uncaught = ""
    /\ ordinals = <<>>
    /\ outfiles = <<>>

\* The filesystem: a candidate or filterbank file is removed by someone
\* else.  main looks at these files in the sanity check and at the start of
\* a call only, so removals are taken between calls and before that look.
RemoveFile ==
    /\ mpc \in {"sanity", "loop"}
    /\ opc \in {"idle", "start"}
    /\ \E f \in present : present' = present \ {f}
    /\ UNCHANGED <<workdirs, archives, ndirs>>
    /\ UNCHANGED <<callVars, mainVars, histVars, notBatch>>

\* The filesystem: the archive dspsr wrote becomes visible.
ArchiveFlush ==
    /\ opc \in {"poll", "zap", "psrplot"}
    /\ workdir \notin archives
    /\ archives' = archives \cup {workdir}
    /\ UNCHANGED <<present, workdirs, ndirs>>
    /\ UNCHANGED <<callVars, mainVars, histVars, notBatch>>

\* main's sanity check of every good candidate's two files, and cand_nr = 1
SanityCheck ==
    /\ mpc = "sanity"
    /\ IF \A i \in 1..Len(good) :
            good[i].cand_file \in present /\ good[i].fil_file \in present
       THEN /\ mpc' = "loop"
            /\ cand_nr' = 1
            /\ uncaught' = uncaught
       ELSE /\ mpc' = "aborted"
            /\ cand_nr' = cand_nr
            /\ uncaught' = ErrSanity
    /\ UNCHANGED <<idx, outcome, made, errlog, printed>>
    /\ UNCHANGED <<callVars, fsVars, histVars, notBatch>>

\* `for item in good: try: plot_candidate_dspsr(...)`: the call is entered
LoopCall ==
    /\ mpc = "loop"
    /\ opc = "idle"
    /\ idx <= Len(good)
    /\ opc' = "start"
    /\ ncalls' = [t \in Tools |-> 0]
    /\ ordinals' = Append(ordinals, cand_nr)
    /\ trace' = <<>>
    /\ UNCHANGED <<workdir, count, nchecks, nsleeps, outfiles>>
    /\ UNCHANGED <<mainVars, fsVars, notBatch>>

\* the loop is exhausted: print('Plotted dynamic spectra: {0}'.format(cand_nr))
Report ==
    /\ mpc = "loop"
    /\ opc = "idle"
    /\ idx > Len(good)
    /\ printed' = cand_nr
    /\ mpc' = "done"
    /\ UNCHANGED <<idx, cand_nr, outcome, made, errlog, uncaught>>
    /\ UNCHANGED <<callVars, fsVars, histVars, notBatch>>

\* the step now run, added to the steps run unless it is the last of them
\* (the polling loop)
RunStep(tr, step) ==
    IF Len(tr) > 0 /\ tr[Len(tr)] = step THEN tr ELSE Append(tr, step)

\* A mutant: after a failure main goes on with the same cand_nr.
RaiseSameNr(stage, exc) ==
    /\ outcome' = Append(outcome, Failed(stage, exc))
    /\ made' = Append(made, workdir)
    /\ opc' = "idle"
    /\ workdir' = 0
    /\ count' = 0
    /\ nchecks' = 0
    /\ nsleeps' = 0
    /\ trace' = RunStep(trace, opc)
    /\ IF Catches(exc)
       THEN /\ errlog' = Append(errlog, idx)
            /\ idx' = idx + 1
            /\ UNCHANGED <<mpc, uncaught, cand_nr>>
       ELSE /\ mpc' = "aborted"
            /\ uncaught' = exc
            /\ UNCHANGED <<errlog, cand_nr, idx>>
    /\ UNCHANGED <<printed, histVars>>

\* The call ends by an exception raised at `stage`.  An exception main's
\* except clause catches is printed, and main goes on with cand_nr += 1 and
\* the next item; any other ends main.
Raise(stage, exc) ==
    /\ outcome' = Append(outcome, Failed(stage, exc))
    /\ made' = Append(made, workdir)
    /\ opc' = "idle"
    /\ workdir' = 0
    /\ count' = 0
    /\ nchecks' = 0
    /\ nsleeps' = 0
    /\ trace' = RunStep(trace, opc)
    /\ IF Catches(exc)
       THEN /\ errlog' = Append(errlog, idx)
            /\ cand_nr' = cand_nr + 1
            /\ idx' = idx + 1
            /\ UNCHANGED <<mpc, uncaught>>
       ELSE /\ mpc' = "aborted"
            /\ uncaught' = exc
            /\ UNCHANGED <<errlog, cand_nr, idx>>
    /\ UNCHANGED <<printed, histVars>>

\* the call goes on to its next step
Goto(step) ==
    /\ opc' = step
    /\ trace' = RunStep(trace, opc)
    /\ UNCHANGED <<mainVars, ordinals>>

\* the same, its locals workdir and count as they were
Step(step) ==
    /\ Goto(step)
    /\ UNCHANGED <<workdir, count, nchecks, nsleeps, outfiles>>

\* A mutant: the fallback comes after the command has run once.
check_output_rerun(encoding_known) ==
    IF encoding_known THEN <<"run">> ELSE <<"run", "run">>

\* try: subprocess.check_output(args, encoding="ascii") / except TypeError:
\* subprocess.check_output(args), as what each of the calls does.  An
\* interpreter whose check_output does not know the encoding argument
\* raises the TypeError on the arguments, before any process is started.
check_output(encoding_known) ==
    IF encoding_known THEN <<"run">> ELSE <<"TypeError", "run">>

\* how often the command was run
RECURSIVE Runs(_)
Runs(attempts) ==
    IF Len(attempts) = 0 THEN 0
    ELSE (IF Head(attempts) = "run" THEN 1 ELSE 0) + Runs(Tail(attempts))

Invoke(tool, attempts) ==
    ncalls' = [ncalls EXCEPT ![tool] = @ + Runs(attempts)]

\* if not os.path.isfile(fil_file): raise RuntimeError
Start ==
    /\ opc = "start"
    /\ IF good[idx].fil_file \in present
       THEN Step("header")
       ELSE Raise("start", ErrFilMissing)
    /\ UNCHANGED <<ncalls, fsVars, notBatch>>

\* the header command, with its fallback, and the parsing of its six
\* lines
Header ==
    /\ opc = "header"
    /\ \E known \in BOOLEAN : Invoke("header", check_output(known))
    /\ \E out \in {"ok", "nonzero", "malformed"} :
        CASE out = "ok" -> Step("dmsmear")
          [] out = "nonzero" -> Raise("header", ErrCalledProcess)
          [] out = "malformed" -> Raise("header", ErrValue)
    /\ UNCHANGED <<fsVars, notBatch>>

\* the dmsmear command and float(result.strip())
Dmsmear ==
    /\ opc = "dmsmear"
    /\ \E known \in BOOLEAN : Invoke("dmsmear", check_output(known))
    /\ \E out \in {"ok", "nonzero", "malformed"} :
        CASE out = "ok" -> Step("mkdtemp")
          [] out = "nonzero" -> Raise("dmsmear", ErrCalledProcess)
          [] out = "malformed" -> Raise("dmsmear", ErrValue)
    /\ UNCHANGED <<fsVars, notBatch>>

\* A mutant: every call works in the same directory.
MkdtempFixed ==
    /\ opc = "mkdtemp"
    /\ ndirs' = ndirs + 1
    /\ workdir' = 1
    /\ workdirs' = workdirs \cup {1}
    /\ Goto("dspsr")
    /\ UNCHANGED <<count, nchecks, nsleeps, outfiles, ncalls, present,
                   archives, notBatch>>

\* workdir = tempfile.mkdtemp(): a directory that did not exist.  The
\* directories are numbered as they are made.
Mkdtemp ==
    /\ opc = "mkdtemp"
    /\ ndirs' = ndirs + 1
    /\ workdir' = ndirs + 1
    /\ workdirs' = workdirs \cup {ndirs + 1}
    /\ Goto("dspsr")
    /\ UNCHANGED <<count, nchecks, nsleeps, outfiles, ncalls, present,
                   archives, notBatch>>

\* the dspsr command run in workdir, result.split("seconds: ")[1], and
\* count = 10
Dspsr ==
    /\ opc = "dspsr"
    /\ \E known \in BOOLEAN : Invoke("dspsr", check_output(known))
    /\ \E out \in {"ok", "flushed", "nonzero", "nomarker"} :
        CASE out = "ok" ->
                /\ Goto("poll")
                /\ count' = PollCount
                /\ workdir' = workdir
                /\ UNCHANGED <<nchecks, nsleeps, outfiles, archives>>
          [] out = "flushed" ->
                /\ Goto("poll")
                /\ count' = PollCount
                /\ workdir' = workdir
                /\ archives' = archives \cup {workdir}
                /\ UNCHANGED <<nchecks, nsleeps, outfiles>>
          [] out = "nonzero" ->
                /\ Raise("dspsr", ErrCalledProcess)
                /\ UNCHANGED archives
          [] out = "nomarker" ->
                /\ Raise("marker", ErrIndex)
                /\ UNCHANGED archives
    /\ UNCHANGED <<present, workdirs, ndirs, notBatch>>

\* A mutant: the loop waits whether the archive is there or not.
PollBlind ==
    /\ opc = "poll"
    /\ nchecks' = nchecks + 1
    /\ IF count > 0
       THEN /\ nsleeps' = nsleeps + 1
            /\ count' = count - 1
            /\ Goto("poll")
       ELSE /\ nsleeps' = nsleeps
            /\ count' = count
            /\ Goto("zap")
    /\ UNCHANGED <<workdir, outfiles, ncalls, fsVars, notBatch>>

\* while ((not os.path.exists(archive)) and count > 0): one test of the
\* condition, which looks for the archive first, and the body (a warning,
\* sleep(1), count = count - 1)
Poll ==
    /\ opc = "poll"
    /\ nchecks' = nchecks + 1
    /\ IF workdir \notin archives /\ count > 0
       THEN /\ nsleeps' = nsleeps + 1
            /\ count' = count - 1
            /\ Goto("poll")
       ELSE /\ nsleeps' = nsleeps
            /\ count' = count
            /\ Goto("zap")
    /\ UNCHANGED <<workdir, outfiles, ncalls, fsVars, notBatch>>

\* the decimal digits, as characters
DigitChars == <<"0", "1", "2", "3", "4", "5", "6", "7", "8", "9">>

\* str(n) of an integer n >= 0, as the sequence of its characters
RECURSIVE Digits(_)
Digits(n) ==
    IF n < 10 THEN <<DigitChars[n + 1]>>
    ELSE Digits(n \div 10) \o <<DigitChars[(n % 10) + 1]>>

\* "{0:0>4}".format(n): right-aligned in four characters, filled up with
\* "0", and longer when n has more digits
Pad4(n) ==
    LET d == Digits(n)
    IN  IF Len(d) >= 4 THEN d
        ELSE [i \in 1..(4 - Len(d)) |-> "0"] \o d

\* os.path.basename(archive)[0:-3], the name dspsr gave the archive: taken
\* to be the same for every candidate, which is what dspsr gives two
\* candidates that start in the same second of the same observation
ArchiveBase == <<"2018-01-01-00:00:00">>

\* os.path.join(".", "c{0:0>4}_{1}.png".format(cand_nr, basename))
Outfile(nr, basename) ==
    <<".", "/", "c">> \o Pad4(nr) \o <<"_">> \o basename \o <<".png">>

\* nchan, zap_file = get_zap_file(zap_mode), the second isfile test, and
\* the annotations and outfile of the psrplot command
Zap ==
    /\ opc = "zap"
    /\ LET res == get_zap_file(zap_mode, maskFiles)
       IN  IF res.kind = "raise"
           THEN Raise(IF res.value = ErrZapFileMissing
                      THEN "maskfile" ELSE "zapmode", res.value)
           ELSE /\ Goto("psrplot")
                /\ outfiles' = Append(outfiles, Outfile(cand_nr, ArchiveBase))
                /\ UNCHANGED <<workdir, count, nchecks, nsleeps>>
    /\ UNCHANGED <<ncalls, fsVars, notBatch>>

\* subprocess.check_call of the psrplot command
Psrplot ==
    /\ opc = "psrplot"
    /\ Invoke("psrplot", <<"run">>)
    /\ \E out \in {"ok", "nonzero"} :
        CASE out = "ok" -> Step("cleanup")
          [] out = "nonzero" -> Raise("psrplot", ErrCalledProcess)
    /\ UNCHANGED <<fsVars, notBatch>>

\* clean up: the archive, if it exists, and the directory are removed; the
\* call returns and main goes on with cand_nr += 1
Cleanup ==
    /\ opc = "cleanup"
    /\ archives' = archives \ {workdir}
    /\ workdirs' = workdirs \ {workdir}
    /\ outcome' = Append(outcome, Done)
    /\ made' = Append(made, workdir)
    /\ opc' = "idle"
    /\ workdir' = 0
    /\ count' = 0
    /\ nchecks' = 0
    /\ nsleeps' = 0
    /\ trace' = RunStep(trace, opc)
    /\ cand_nr' = cand_nr + 1
    /\ idx' = idx + 1
    /\ UNCHANGED <<mpc, errlog, printed, uncaught, histVars>>
    /\ UNCHANGED <<ncalls, present, ndirs, notBatch>>

Next ==
    \/ RemoveFile
    \/ ArchiveFlush
    \/ SanityCheck
    \/ LoopCall
    \/ Start
    \/ Header
    \/ Dmsmear
    \/ Mkdtemp
    \/ Dspsr
    \/ Poll
    \/ Zap
    \/ Psrplot
    \/ Cleanup
    \/ Report

Spec == Init /\ [][Next]_vars

\* the candidates attempted so far whose call ended in Done
Succeeded == {i \in 1..Len(outcome) : outcome[i].state = "Done"}

\* the stages whose failure is an error of one candidate's extraction
ExtractionStages ==
    {"header", "dmsmear", "dspsr", "marker", "zapmode", "maskfile", "psrplot"}

----------------------------------------------------------------------------
(* C1: once a candidate's call has ended (Done or Failed) and a temporary  *)
(* directory was made for it, neither the directory nor the archive in it *)
(* exists any more, whichever stage failed.                               *)
C1_WorkspaceRemoved ==
    \A i \in 1..Len(outcome) :
        made[i] # 0 => made[i] \notin workdirs /\ made[i] \notin archives

----------------------------------------------------------------------------
(* C2: a candidate whose extraction fails, at whichever stage, has its     *)
(* error recorded and main goes on; main never ends because of one        *)
(* candidate, and when it is done every good candidate was attempted.     *)
C2_FailureIsolated ==
    /\ \A i \in 1..Len(outcome) :
        (outcome[i].state = "Failed" /\ outcome[i].stage \in ExtractionStages)
            => /\ \E k \in 1..Len(errlog) : errlog[k] = i
               /\ mpc # "aborted"
    /\ mpc = "done" => Len(outcome) = Len(good)

----------------------------------------------------------------------------
(* C3: the number main reports when it finishes is the number of           *)
(* candidates whose extraction reached Done.                               *)
C3_ReportsSucceeded ==
    mpc = "done" => printed = Cardinality(Succeeded)

----------------------------------------------------------------------------
C4_StateInv ==
    /\ uncaught = ErrSanity =>
        /\ mpc = "aborted"
        /\ outcome = <<>>
        /\ ndirs = 0
        /\ \A t \in Tools : ncalls[t] = 0
    /\ \A i \in 1..Len(outcome) :
        outcome[i].exc = ErrFilMissing =>
            /\ i = Len(outcome)
            /\ outcome[i].stage = "start"
            /\ mpc = "aborted"
            /\ uncaught = ErrFilMissing
            /\ made[i] = 0
            /\ \A t \in Tools : ncalls[t] = 0
            /\ good[i].fil_file \notin present
    /\ mpc = "aborted" => opc = "idle" /\ ~ENABLED Next

\* the look at the file, with the file missing, ends main
C4_StepInv ==
    /\ (mpc = "sanity" /\ mpc' # "sanity"
            /\ \E i \in 1..Len(good) : good[i].fil_file \notin present)
        => (mpc' = "aborted" /\ uncaught' = ErrSanity)
    /\ (opc = "start" /\ opc' # "start" /\ good[idx].fil_file \notin present)
        => (mpc' = "aborted" /\ uncaught' = ErrFilMissing)

----------------------------------------------------------------------------
(* C16: main visits the good candidates in order of non-increasing snr;    *)
(* the i-th call gets cand_nr = i, also after failed calls; no two calls  *)
(* of a run get the same cand_nr or build the same outfile.                *)
C16_OrdinalsUnique ==
    /\ SortedBySnrDesc(good)
    /\ \A i \in 1..Len(ordinals) : ordinals[i] = i
    /\ \A i, j \in 1..Len(ordinals) : i # j => ordinals[i] # ordinals[j]
    /\ opc # "idle" =>
        /\ idx = Len(ordinals)
        /\ cand_nr = idx
        /\ Len(outcome) = idx - 1
    /\ opc = "idle" => Len(ordinals) = Len(outcome)
    /\ \A i, j \in 1..Len(outfiles) : i # j => outfiles[i] # outfiles[j]
    /\ opc \in {"psrplot", "cleanup"} =>
        outfiles[Len(outfiles)] =
            <<".", "/", "c", "0", "0", "0", DigitChars[idx + 1], "_">>
                \o ArchiveBase \o <<".png">>

\* C16, reached: of three candidates the first failed in a way main
\* catches, the second and the third were plotted
C16_Witness ==
    /\ mpc = "done"
    /\ Len(good) = 3
    /\ good[1].snr > good[3].snr
    /\ outcome[1].state = "Failed"
    /\ outcome[2] = Done
    /\ outcome[3] = Done
    /\ ordinals = <<1, 2, 3>>
    /\ Len(outfiles) = 2

----------------------------------------------------------------------------
\* the directories made for the calls that have ended
MadeBefore == {made[i] : i \in 1..Len(made)} \ {0}

\* in every state: the directories of the calls
C17_StateInv ==
    /\ \A i, j \in 1..Len(made) :
        (i # j /\ made[i] # 0) => made[i] # made[j]
    /\ workdir # 0 => workdir \notin MadeBefore
    /\ opc \in {"dspsr", "poll", "zap", "psrplot", "cleanup"} =>
        (workdir # 0 /\ workdir \in workdirs)
    /\ opc \in {"idle", "start", "header", "dmsmear", "mkdtemp"} =>
        workdir = 0

\* the making of a call's directory, and its use
C17_StepInv ==
    /\ workdirs' # workdirs /\ workdirs \subseteq workdirs' =>
        /\ opc = "mkdtemp"
        /\ workdir = 0
        /\ workdir' \notin workdirs
        /\ workdir' \notin MadeBefore
        /\ workdirs' = workdirs \cup {workdir'}
    /\ (workdir # 0 /\ opc' # "idle") => workdir' = workdir

(* C17: every call that gets as far as the extraction makes one temporary  *)
(* directory of its own, which did not exist before and was made for no   *)
(* earlier call, and works in it until it ends, whether the earlier calls *)
(* ended in Done or in Failed.                                             *)
C17_FreshWorkspace == [](C17_StateInv) /\ [][C17_StepInv]_vars

\* C17, reached: the first call failed and left its directory behind, the
\* second call has made another one
C17_Witness ==
    /\ Len(outcome) = 1
    /\ outcome[1].state = "Failed"
    /\ made[1] = 1
    /\ made[1] \in workdirs
    /\ opc = "dspsr"
    /\ workdir = 2

----------------------------------------------------------------------------
\* the external commands a call has behind it when it stands at a step
ToolsBefore(step) ==
    CASE step \in {"idle", "start", "header"} -> {}
      [] step = "dmsmear" -> {"header"}
      [] step \in {"mkdtemp", "dspsr"} -> {"header", "dmsmear"}
      [] step \in {"poll", "zap", "psrplot"} -> {"header", "dmsmear", "dspsr"}
      [] step = "cleanup" -> Tools

\* in every state: no command was run twice in the call
C18_StateInv ==
    /\ \A t \in Tools : ncalls[t] <= 1
    /\ opc # "idle" =>
        \A t \in Tools : ncalls[t] = IF t \in ToolsBefore(opc) THEN 1 ELSE 0

\* a step runs at most one command, once; only the polling loop goes round
C18_StepInv ==
    /\ ncalls' # ncalls /\ opc # "idle" =>
        \E t \in Tools :
            /\ ncalls[t] = 0
            /\ ncalls' = [ncalls EXCEPT ![t] = 1]
    /\ (opc' = opc /\ opc # "idle" /\ callVars' # callVars) =>
        (opc = "poll" /\ ncalls' = ncalls /\ nsleeps' = nsleeps + 1)

(* C18: in one call of plot_candidate_dspsr each of the commands header,   *)
(* dmsmear, dspsr and psrplot is run at most once, on either branch of    *)
(* the TypeError fallback; only the polling loop repeats a step, and it   *)
(* runs no command.                                                        *)
C18_ToolsRunOnce == [](C18_StateInv) /\ [][C18_StepInv]_vars

\* C18, reached: a call that waited three times for the archive has run
\* each command once
C18_Witness ==
    /\ opc = "cleanup"
    /\ nsleeps = 3
    /\ \A t \in Tools : ncalls[t] = 1

----------------------------------------------------------------------------
\* the steps of a call in the order of the function's text: Start (start),
\* HeaderFetched (header), WindowDerived (dmsmear, with the arithmetic that
\* follows it), Extracting (mkdtemp, dspsr), Polling (poll), Rendering
\* (zap, psrplot), Cleaned (cleanup)
StepOrder ==
    <<"start", "header", "dmsmear", "mkdtemp", "dspsr", "poll", "zap",
      "psrplot", "cleanup">>

\* the step of the function that runs a command
StepOfTool(t) ==
    CASE t = "header" -> "header"
      [] t = "dmsmear" -> "dmsmear"
      [] t = "dspsr" -> "dspsr"
      [] t = "psrplot" -> "psrplot"

Ran(step) == \E k \in 1..Len(trace) : trace[k] = step

\* the latest call has ended
CallEnded == opc = "idle" /\ Len(trace) > 0

\* the order of the steps, the commands and the directory of a call, and
\* its one end
C21_OrderKept ==
    /\ Len(trace) <= Len(StepOrder)
    /\ trace = SubSeq(StepOrder, 1, Len(trace))
    /\ opc \notin {"idle", "start"} =>
        \E k \in 1..Len(StepOrder) :
            /\ StepOrder[k] = opc
            /\ Len(trace) \in {k - 1, k}
            /\ Len(trace) = k => opc = "poll"
    /\ \A t \in Tools :
        (opc # "idle" /\ ncalls[t] > 0) => Ran(StepOfTool(t))
    /\ workdir # 0 => (Ran("dmsmear") /\ Ran("mkdtemp"))
    /\ CallEnded =>
        /\ Len(outcome) = Len(ordinals)
        /\ outcome[Len(outcome)].state \in {"Done", "Failed"}
        /\ outcome[Len(outcome)].state = "Done" <=> Ran("cleanup")
    /\ opc # "idle" => Len(outcome) = Len(ordinals) - 1

(* C21: the steps of a call come in the order Start, HeaderFetched,        *)
(* WindowDerived, Extracting, Polling, Rendering, Cleaned and the call    *)
(* then ends in one of Done and Failed; a command is run only after the   *)
(* steps before it, the directory is made only after the window is        *)
(* derived, and a call that got as far as Extracting passes Cleaned       *)
(* before it ends, in Done or in Failed.                                   *)
C21_StagesInOrder ==
    /\ C21_OrderKept
    /\ (CallEnded /\ Ran("mkdtemp")) => Ran("cleanup")

----------------------------------------------------------------------------
\* The polling loop is not held up: the interpreter goes on with the loop
\* as long as the call stands in it.
SpecPolling == Spec /\ WF_vars(Poll)

(* C15, as claimed: the polling loop looks for the archive at most 10      *)
(* times.                                                                  *)
C15_AtMostTenChecks == nchecks <= 10

\* in every state: the checks and the waits of the call's polling loop
C15_StateInv ==
    /\ nchecks <= 11
    /\ nsleeps <= 10
    /\ opc = "poll" =>
        /\ nchecks = nsleeps
        /\ count = 10 - nsleeps
        /\ ENABLED Poll
    /\ opc \in {"zap", "psrplot", "cleanup"} => nchecks = nsleeps + 1

\* one test of the loop's condition
C15_StepInv ==
    (opc = "poll" /\ nchecks' # nchecks) =>
        /\ nchecks' = nchecks + 1
        /\ opc' \in {"poll", "zap"}
        /\ outcome' = outcome
        /\ mpc' = mpc
        /\ workdir \in archives => (opc' = "zap" /\ nsleeps' = nsleeps)
        /\ (workdir \notin archives /\ nsleeps < 10) =>
                (opc' = "poll" /\ nsleeps' = nsleeps + 1 /\ count' < count)
        /\ (workdir \notin archives /\ nsleeps = 10) =>
                (opc' = "zap" /\ nsleeps' = nsleeps)

(* C15, amended: the polling loop waits at most 10 times, one second after *)
(* each of the first 10 checks that did not find the archive, and looks   *)
(* for the archive at most 11 times: once before every wait and once      *)
(* more after the last.  It leaves for the rendering at the first check   *)
(* that finds the archive, and after the 10th wait whatever the 11th      *)
(* check finds; it never ends the call in Failed, and it always ends.     *)
C15_PollingBounded ==
    /\ [](C15_StateInv)
    /\ [][C15_StepInv]_vars
    /\ (opc = "poll") ~> (opc = "zap")

\* C15, reached: ten waits went by, the 11th look did not find the archive
\* either, and the call went on
C15_Witness ==
    /\ opc = "zap"
    /\ nsleeps = 10
    /\ nchecks = 11
    /\ workdir \notin archives

----------------------------------------------------------------------------
(* plot_candidate_dspsr of src/hdpipe/candviewer.py: the arithmetic of the *)
(* extraction window, between its external commands.                       *)
(*                                                                         *)
(* Times.  A time is a float of seconds in the program; the model counts  *)
(* it in ticks of half a microsecond and draws every measured time from   *)
(* the whole microseconds, so that the products, the sums and the halves  *)
(* below are exact.                                                        *)

\* the largest filter number of a candidate
MaxFilter == 2

\* the largest snr of the range of candidates tried
MaxSnr == 12

\* n microseconds
Micro(n) == 2 * n

\* n seconds
Sec(n) == Micro(1000000 * n)

\* the first line of the header command's output, -tsamp, in microseconds
TsampTried == {64, 1000}

\* the output of the dmsmear command, in seconds (whatever number the
\* command prints is taken, a negative one too)
SmearTried == {0 - Micro(3000), 0, Micro(3), Micro(20300), Sec(5)}

\* the arguments the function is tried with
SampleTried == {0, 1000}
SnrTried == (0..MaxSnr) \cup {91, 100}
LengthTried == {0, Sec(1)}
NbinTried == {0, 8, 100, 2000}
NchanTried == {0, 1, 32, 600}

\* A mutant: the quotient rounded up.
int_ceil(a, b) == -((-a) \div b)

\* int(a / b) of floats a and b > 0: the quotient, truncated towards zero
int(a, b) == IF a >= 0 THEN a \div b ELSE -((-a) \div b)

\* A mutant: the fraction is cut off.
round_down(a, b) == a \div b

\* round(a / b) of a float a / b >= 0, as Python 3 rounds: to the nearest
\* integer, a tie to the even one
round(a, b) ==
    LET q == a \div b
        r == a % b
    IN  IF 2 * r < b THEN q
        ELSE IF 2 * r > b THEN q + 1
        ELSE IF q % 2 = 0 THEN q ELSE q + 1

\* A mutant: an nbin given by the caller is left as it is.
NbinOfUnclamped(nb, tot, bin_width) ==
    IF nb = 0
    THEN LET n1 == int(tot, bin_width)
             n2 == IF n1 < 16 THEN 16 ELSE n1
         IN  IF n2 > 1024 THEN 1024 ELSE n2
    ELSE nb

\* `if nbin == 0: ... nbin = int(cand_tot_time / bin_width)`, and the two
\* tests that follow the if statement, whichever branch was taken
NbinOf(nb, tot, bin_width) ==
    LET n1 == IF nb = 0 THEN int(tot, bin_width) ELSE nb
        n2 == IF n1 < 16 THEN 16 ELSE n1
    IN  IF n2 > 1024 THEN 1024 ELSE n2

\* A mutant: an nchan given by the caller is held below 512 only.
NchanOfUpperOnly(nc, s) ==
    IF nc = 0
    THEN LET n1 == round(s * s, 16)
             n2 == IF n1 < 2 THEN 2 ELSE n1
         IN  IF n2 > 512 THEN 512 ELSE n2
    ELSE IF nc > 512 THEN 512 ELSE nc

\* `if nchan == 0: nchan = int(round(math.pow(float(snr) / 4.0, 2)))`, and
\* the two tests that follow the if statement
NchanOf(nc, s) ==
    LET n1 == IF nc = 0 THEN round(s * s, 16) ELSE nc
        n2 == IF n1 < 2 THEN 2 ELSE n1
    IN  IF n2 > 512 THEN 512 ELSE n2

\* A mutant: the window starts half a smearing time after the candidate.
StartTimeOfAfter(t, smearing) == t + smearing \div 2

\* A mutant: the window starts a whole smearing time before the candidate.
StartTimeOfWhole(t, smearing) == t - smearing

\* cand_start_time = cand_time - 0.5 * cand_smearing
StartTimeOf(t, smearing) == t - smearing \div 2

\* the call is entered with its arguments
InitWindow ==
    /\ ClsIdle
    /\ ZapIdle
    /\ AggIdle
    /\ BatchIdle
    /\ HdIdle
    /\ PreIdle
    /\ good = <<>>
    /\ sample \in SampleTried
    /\ filter \in 0..MaxFilter
    /\ snr \in SnrTried
    /\ length \in LengthTried
    /\ nbin0 \in NbinTried
    /\ nchan0 \in NchanTried
    /\ nbin = nbin0
    /\ nchan = nchan0
    /\ samp_time = 0
    /\ cand_band_smear = 0
    /\ cand_time = 0
    /\ cand_filter_time = 0
    /\ cand_smearing = 0
    /\ cand_start_time = 0
    /\ cand_tot_time = 0
    /\ wpc = "call"

\* samp_time = float(info[0].strip()) * 1E-6 and
\* cand_time = samp_time * sample
HeaderInfo ==
    /\ wpc = "call"
    /\ \E tsamp \in TsampTried :
        /\ samp_time' = Micro(tsamp)
        /\ cand_time' = Micro(tsamp) * sample
    /\ wpc' = "header"
    /\ UNCHANGED <<winArgs, cand_band_smear, cand_filter_time, cand_smearing,
                   cand_start_time, cand_tot_time, nbin, nchan>>
    /\ UNCHANGED notWin

\* from cand_band_smear = float(result.strip()) to the clamping of nbin
Window ==
    /\ wpc = "header"
    /\ \E result \in SmearTried :
        LET filter_time == (2 ^ filter) * samp_time
            smearing == result + filter_time
            tot_time == IF length # 0 THEN length ELSE 2 * smearing
        IN  /\ cand_band_smear' = result
            /\ cand_filter_time' = filter_time
            /\ cand_smearing' = smearing
            /\ cand_start_time' = StartTimeOf(cand_time, smearing)
            /\ cand_tot_time' = tot_time
            /\ nbin' = NbinOf(nbin, tot_time, filter_time)
    /\ wpc' = "window"
    /\ UNCHANGED <<winArgs, samp_time, cand_time, nchan>>
    /\ UNCHANGED notWin

\* the choice of nchan, after the polling loop
Scrunch ==
    /\ wpc = "window"
    /\ nchan' = NchanOf(nchan, snr)
    /\ wpc' = "scrunch"
    /\ UNCHANGED <<winArgs, samp_time, cand_band_smear, cand_time,
                   cand_filter_time, cand_smearing, cand_start_time,
                   cand_tot_time, nbin>>
    /\ UNCHANGED notWin

NextWindow ==
    \/ HeaderInfo
    \/ Window
    \/ Scrunch

SpecWindow == InitWindow /\ [][NextWindow]_vars

----------------------------------------------------------------------------
(* C11: with nbin = 0 passed, and a positive extraction length and filter  *)
(* duration, the bin count of the dspsr command is the floor of their     *)
(* quotient, clamped into [16, 1024]; it is a positive integer.  The      *)
(* floor q of tot / ft is the integer with q * ft <= tot < (q + 1) * ft.  *)
C11_BinCountDerived ==
    (wpc \in {"window", "scrunch"} /\ nbin0 = 0
        /\ cand_tot_time > 0 /\ cand_filter_time > 0) =>
        /\ nbin \in 16..1024
        /\ nbin > 16 => nbin * cand_filter_time <= cand_tot_time
        /\ nbin < 1024 => cand_tot_time < (nbin + 1) * cand_filter_time
        /\ nbin > 0

\* C11, reached: a quotient between the clamps, 2 * (20.3 ms + 1 ms) / 1 ms,
\* and one below and one above them
C11_Witness ==
    /\ wpc = "window"
    /\ nbin0 = 0
    /\ length = 0
    /\ cand_filter_time = Micro(1000)
    /\ cand_band_smear = Micro(20300)
    /\ nbin = 42

----------------------------------------------------------------------------
(* C12, as claimed: an nbin passed by the caller reaches the dspsr command *)
(* as it was passed, whatever its value.                                   *)
C12_OverrideUnclamped ==
    (wpc \in {"window", "scrunch"} /\ nbin0 # 0) => nbin = nbin0

(* C12, amended: an nbin passed by the caller is clamped into [16, 1024]   *)
(* like a derived one: a value in the range is used as it is, a smaller   *)
(* one becomes 16, a larger one 1024, whatever the extraction length.     *)
C12_OverrideClamped ==
    (wpc \in {"window", "scrunch"} /\ nbin0 # 0) =>
        /\ nbin \in 16..1024
        /\ nbin0 \in 16..1024 => nbin = nbin0
        /\ nbin0 < 16 => nbin = 16
        /\ nbin0 > 1024 => nbin = 1024

\* C12, reached: the caller asked for 8 bins and dspsr gets 16
C12_Witness ==
    /\ wpc = "window"
    /\ nbin0 = 8
    /\ nbin = 16

----------------------------------------------------------------------------
(* C13: with nchan = 0 passed and snr >= 0, the channel number of the      *)
(* psrplot command is (snr / 4)^2 rounded to the nearest integer and      *)
(* clamped into [2, 512]; a very small snr gives 2.  An integer q is      *)
(* nearest to snr^2 / 16 when |16 * q - snr^2| <= 8.                      *)
C13_ScrunchDerived ==
    (wpc = "scrunch" /\ nchan0 = 0 /\ snr >= 0) =>
        /\ nchan \in 2..512
        /\ nchan > 2 => 16 * nchan - snr * snr <= 8
        /\ nchan < 512 => snr * snr - 16 * nchan <= 8
        /\ snr <= 4 => nchan = 2

\* C13, reached: snr = 11 gives 7.5625, rounded up to 8
C13_Witness ==
    /\ wpc = "scrunch"
    /\ nchan0 = 0
    /\ snr = 11
    /\ nchan = 8

----------------------------------------------------------------------------
(* C14, as claimed: an nchan passed by the caller reaches the psrplot      *)
(* command as the smaller of it and 512; a value below 2 is not raised.   *)
C14_OverrideUpperOnly ==
    (wpc = "scrunch" /\ nchan0 # 0) =>
        nchan = IF nchan0 > 512 THEN 512 ELSE nchan0

(* C14, amended: an nchan passed by the caller is clamped into [2, 512]    *)
(* like a derived one: a value below 2 becomes 2, a value above 512       *)
(* becomes 512, and a value of at least 2 (the only ones main lets        *)
(* through) gives the smaller of it and 512.                               *)
C14_OverrideClamped ==
    (wpc = "scrunch" /\ nchan0 # 0) =>
        /\ nchan \in 2..512
        /\ nchan0 < 2 => nchan = 2
        /\ nchan0 >= 2 => nchan = IF nchan0 > 512 THEN 512 ELSE nchan0

\* C14, reached: the caller asked for 1 channel and psrplot gets 2; snr
\* alone would have given 8
C14_Witness ==
    /\ wpc = "scrunch"
    /\ nchan0 = 1
    /\ snr = 11
    /\ nchan = 2

----------------------------------------------------------------------------
(* C19: with no length, nbin or nchan passed, cand_time is sample times    *)
(* the sampling time, the filter time 2^filter sampling times, the        *)
(* smearing the sum of band smearing and filter time, the window starts   *)
(* half a smearing before cand_time and lasts two smearings.  For         *)
(* filter = 0, snr = 4, a sampling time of 0.001 s, sample = 1000 and no  *)
(* band smearing: cand_time 1.0 s, filter time 0.001 s, start 0.9995 s,   *)
(* length 0.002 s and nchan 2.                                             *)
C19_WindowFormulas ==
    /\ wpc # "call" => cand_time = sample * samp_time
    /\ (wpc \in {"window", "scrunch"} /\ length = 0) =>
        /\ cand_filter_time = 2 ^ filter * samp_time
        /\ cand_smearing = cand_band_smear + cand_filter_time
        /\ 2 * cand_start_time = 2 * cand_time - cand_smearing
        /\ cand_tot_time = 2 * cand_smearing
    /\ (wpc \in {"window", "scrunch"} /\ length = 0 /\ filter = 0
            /\ samp_time = Micro(1000) /\ sample = 1000
            /\ cand_band_smear = 0) =>
        /\ cand_time = Micro(1000000)
        /\ cand_filter_time = Micro(1000)
        /\ cand_start_time = Micro(999500)
        /\ cand_tot_time = Micro(2000)
    /\ (wpc = "scrunch" /\ nchan0 = 0 /\ snr = 4) => nchan = 2

\* C19, reached: the example, with nothing passed for length, nbin, nchan
C19_Witness ==
    /\ wpc = "scrunch"
    /\ length = 0
    /\ nbin0 = 0
    /\ nchan0 = 0
    /\ filter = 0
    /\ snr = 4
    /\ samp_time = Micro(1000)
    /\ sample = 1000
    /\ cand_band_smear = 0
    /\ cand_start_time = Micro(999500)

----------------------------------------------------------------------------
(* C22: with no length passed and a band smearing that is not negative,    *)
(* cand_time lies in the window, cand_start_time <= cand_time <=          *)
(* cand_start_time + cand_tot_time, a quarter of the window after its     *)
(* start.                                                                  *)
C22_CandidateInWindow ==
    (wpc \in {"window", "scrunch"} /\ length = 0 /\ cand_band_smear >= 0) =>
        /\ cand_start_time <= cand_time
        /\ cand_time <= cand_start_time + cand_tot_time
        /\ 4 * (cand_time - cand_start_time) = cand_tot_time

\* C22, reached: a candidate one second into the data, smeared over
\* 20.3 ms and a filter time of 4 ms
C22_Witness ==
    /\ wpc = "window"
    /\ length = 0
    /\ cand_band_smear = Micro(20300)
    /\ cand_filter_time = Micro(4000)
    /\ cand_time = Micro(1000000)
    /\ cand_start_time = Micro(987850)
    /\ cand_tot_time = Micro(48600)

----------------------------------------------------------------------------
(* main of src/hdpipe/run_heimdall.py (and of src/run_heimdall.py): the    *)
(* loop over the filterbank files.                                         *)

\* the most files given on the command line
MaxFils == 3

\* the filterbank file names, in the order np.sort gives them
FilNames == <<"a.fil", "b.fil", "c.fil">>

FilRank(f) == CHOOSE k \in 1..Len(FilNames) : FilNames[k] = f

\* x put into the sorted names after the names that are not above it
NameInsert(x, arr) ==
    LET k == Cardinality({j \in 1..Len(arr) : FilRank(arr[j]) <= FilRank(x)})
    IN  SubSeq(arr, 1, k) \o <<x>> \o SubSeq(arr, k + 1, Len(arr))

\* np.sort(args.files)
RECURSIVE np_sort_names(_)
np_sort_names(arr) ==
    IF Len(arr) = 0 THEN <<>>
    ELSE NameInsert(Head(arr), np_sort_names(Tail(arr)))

\* the exceptions of run_heimdall
ErrHdFileMissing == "RuntimeError: The file does not exist"
ErrOS == "OSError"

\* how the heimdall command and the file operations after it may go
HeimdallRuns == {"ok", "nonzero", "oserror"}

\* run_heimdall(filename, gpu_id, zap_mode, dm_max): the isfile test,
\* get_zap_str, mkdtemp, check_call of heimdall, the merging of the
\* candidate files into the output file, and the clean-up
run_heimdall(filename, mode, present_fils, run) ==
    IF filename \notin present_fils THEN Raised(ErrHdFileMissing)
    ELSE IF get_zap_str(mode).kind = "raise" THEN get_zap_str(mode)
    ELSE IF run = "nonzero" THEN Raised(ErrCalledProcess)
    ELSE IF run = "oserror" THEN Raised(ErrOS)
    ELSE Returned("")

\* A mutant: the counter goes up after every call.
CountAfterAlways(n, res) == n + 1

\* try: run_heimdall(...) / except Exception: log.error(...) / else: i += 1
CountAfter(n, res) == IF res.kind = "raise" THEN n ELSE n + 1

\* After main's sanity check (every file exists), files = np.sort(args.files)
\* and i = 0.
InitHeimdall ==
    /\ ClsIdle
    /\ AggIdle
    /\ BatchIdle
    /\ WinIdle
    /\ PreIdle
    /\ good = <<>>
    /\ zap_mode \in ZapChoicesHeimdall
    /\ maskFiles = AllMaskFiles
    /\ zres = NoResult
    /\ zpc = "idle"
    /\ h_args \in SeqUpTo({FilNames[k] : k \in 1..Len(FilNames)}, MaxFils)
                    \ {<<>>}
    /\ files = np_sort_names(h_args)
    /\ filsPresent = {h_args[k] : k \in 1..Len(h_args)}
    /\ i_ok = 0
    /\ h_idx = 1
    /\ attempted = <<>>
    /\ h_results = <<>>
    /\ h_printed = -1
    /\ hpc = "loop"

\* The filesystem: a filterbank file is removed by someone else while main
\* runs.
RemoveFil ==
    /\ hpc = "loop"
    /\ \E f \in filsPresent : filsPresent' = filsPresent \ {f}
    /\ UNCHANGED <<h_args, files, i_ok, h_idx, attempted, h_results,
                   h_printed, hpc>>
    /\ UNCHANGED <<zapVars, notHd>>

\* one iteration of `for item in files`
HeimdallFile ==
    /\ hpc = "loop"
    /\ h_idx <= Len(files)
    /\ \E run \in HeimdallRuns :
        LET res == run_heimdall(files[h_idx], zap_mode, filsPresent, run)
        IN  /\ h_results' = Append(h_results, res)
            /\ i_ok' = CountAfter(i_ok, res)
    /\ attempted' = Append(attempted, files[h_idx])
    /\ h_idx' = h_idx + 1
    /\ UNCHANGED <<h_args, files, filsPresent, h_printed, hpc>>
    /\ UNCHANGED <<zapVars, notHd>>

\* print("Successfully processed files: {0} ({1})".format(i, len(files)))
HeimdallReport ==
    /\ hpc = "loop"
    /\ h_idx > Len(files)
    /\ h_printed' = i_ok
    /\ hpc' = "done"
    /\ UNCHANGED <<h_args, files, filsPresent, i_ok, h_idx, attempted,
                   h_results>>
    /\ UNCHANGED <<zapVars, notHd>>

NextHeimdall ==
    \/ RemoveFil
    \/ HeimdallFile
    \/ HeimdallReport

SpecHeimdall == InitHeimdall /\ [][NextHeimdall]_vars

\* how often a name stands in an array
Occurrences(f, arr) == Cardinality({k \in 1..Len(arr) : arr[k] = f})

\* the calls so far that raised nothing
HdSucceeded == {k \in 1..Len(h_results) : h_results[k].kind = "return"}

----------------------------------------------------------------------------
(* C23: main calls run_heimdall on the files in sorted order, once for     *)
(* each file given, whatever the earlier calls raised, and never ends     *)
(* before the last; the number it prints is the number of calls that      *)
(* raised nothing, at most the number of files.                           *)
C23_EveryFileOnce ==
    /\ \A k \in 1..(Len(files) - 1) : FilRank(files[k]) <= FilRank(files[k + 1])
    /\ \A f \in {FilNames[k] : k \in 1..Len(FilNames)} :
        Occurrences(f, files) = Occurrences(f, h_args)
    /\ Len(attempted) = h_idx - 1
    /\ Len(attempted) <= Len(files)
    /\ attempted = SubSeq(files, 1, Len(attempted))
    /\ Len(h_results) = Len(attempted)
    /\ i_ok = Cardinality(HdSucceeded)
    /\ hpc = "loop" => (ENABLED HeimdallFile \/ ENABLED HeimdallReport)
    /\ hpc = "done" =>
        /\ attempted = files
        /\ h_printed = Cardinality(HdSucceeded)
        /\ h_printed <= Len(files)

\* C23, reached: of three files given out of order the first in sorted
\* order went missing, the second made heimdall fail, the third was
\* processed
C23_Witness ==
    /\ hpc = "done"
    /\ h_args = <<"c.fil", "a.fil", "b.fil">>
    /\ attempted = <<"a.fil", "b.fil", "c.fil">>
    /\ h_results[1] = Raised(ErrHdFileMissing)
    /\ h_results[2] = Raised(ErrCalledProcess)
    /\ h_results[3] = Returned("")
    /\ h_printed = 1

----------------------------------------------------------------------------
(* integrate_psrfits of src/scripts/preprocess.py: the files of one        *)
(* directory, processed in bunches.                                        *)

\* the most files of a directory
MaxSf == 62

\* step = 30
step == 30

\* int(np.ceil(a / float(b))) for a >= 0, b > 0
ceil(a, b) == (a + b - 1) \div b

\* arr[a:b] for 0 <= a and 0 <= b, positions counted from 0
Slice(arr, a, b) ==
    LET e == IF b > Len(arr) THEN Len(arr) ELSE b
    IN  IF e <= a THEN <<>> ELSE SubSeq(arr, a + 1, e)

\* the end of the bunch as the function computes it:
\* end = (ibatch + 1) * step; if end >= len(files): end = len(files) - 1
EndOf(k, n) == IF (k + 1) * step >= n THEN n - 1 ELSE (k + 1) * step

\* files = sorted(glob.glob(...)) of one directory, the files numbered in
\* their order
InitPreprocess ==
    /\ ClsIdle
    /\ ZapIdle
    /\ AggIdle
    /\ BatchIdle
    /\ WinIdle
    /\ HdIdle
    /\ good = <<>>
    /\ \E n \in 0..MaxSf : sf_files = [k \in 1..n |-> k]
    /\ ibatch = 0
    /\ batches = <<>>
    /\ p_uncaught = ""
    /\ ppc = "loop"

\* one iteration of `for ibatch in range(nbatch)`: the bunch, its output
\* file named after files_to_process[0], and the command
Bunch ==
    /\ ppc = "loop"
    /\ ibatch < ceil(Len(sf_files), step)
    /\ LET start == ibatch * step
           files_to_process ==
               Slice(sf_files, start, EndOf(ibatch, Len(sf_files)))
       IN  /\ batches' = Append(batches, files_to_process)
           /\ IF Len(files_to_process) = 0
              THEN /\ p_uncaught' = ErrIndex
                   /\ ppc' = "aborted"
                   /\ ibatch' = ibatch
              ELSE \E out \in {"ok", "nonzero"} :
                    IF out = "ok"
                    THEN /\ ibatch' = ibatch + 1
                         /\ UNCHANGED <<p_uncaught, ppc>>
                    ELSE /\ p_uncaught' = ErrCalledProcess
                         /\ ppc' = "aborted"
                         /\ ibatch' = ibatch
    /\ UNCHANGED sf_files
    /\ UNCHANGED notPre

\* the loop is exhausted
BunchesDone ==
    /\ ppc = "loop"
    /\ ibatch >= ceil(Len(sf_files), step)
    /\ ppc' = "done"
    /\ UNCHANGED <<sf_files, ibatch, batches, p_uncaught>>
    /\ UNCHANGED notPre

NextPreprocess ==
    \/ Bunch
    \/ BunchesDone

SpecPreprocess == InitPreprocess /\ [][NextPreprocess]_vars

\* the bunches one after the other
RECURSIVE Flatten(_)
Flatten(seqs) ==
    IF Len(seqs) = 0 THEN <<>> ELSE Head(seqs) \o Flatten(Tail(seqs))

----------------------------------------------------------------------------
(* C24: the bunches are consecutive parts of the sorted file list of at    *)
(* most 30 files each, none of them empty, and when the function is       *)
(* through, every file is in exactly one of them; this for every number   *)
(* of files from 1 on (the function is not ended by a bunch it cannot     *)
(* process).                                                               *)
C24_BatchesPartition ==
    /\ \A b \in 1..Len(batches) :
        Len(batches[b]) >= 1 /\ Len(batches[b]) <= 30
    /\ Flatten(batches) = SubSeq(sf_files, 1, Len(Flatten(batches)))
    /\ p_uncaught # ErrIndex
    /\ ppc = "done" => Flatten(batches) = sf_files

=============================================================================
